---- MODULE Spec2Model ----
(***************************************************************************)
(* Vacation packages priced and printed by two dispatch strategies:        *)
(*   - the type-switch variant (free functions calculatePrice and          *)
(*     getItinerary testing instanceof, folded by VacationPackage), and    *)
(*   - the visitor variant (visitor.ts: accept / visitFlight ... ).        *)
(* Both packages receive the same add calls, so that their results can be  *)
(* compared call by call.                                                  *)
(*                                                                         *)
(* JavaScript values are records tagged by t.  A number is an IEEE-754     *)
(* double; the integer hi * 2^53 + lo is written Num(hi, lo) with lo small,*)
(* and every arithmetic result is rounded to the nearest double (ties to   *)
(* even), as the hardware does.  Dates are UTC midnights of January 1970,  *)
(* held as their getTime() value in milliseconds.                          *)
(***************************************************************************)
EXTENDS Integers, Sequences, FiniteSets, TLC

\* The largest number of products a package holds in the model.
MaxProducts == 3

(***************************************************************************)
(* JavaScript values                                                       *)
(***************************************************************************)
Undefined == [t |-> "undefined"]

NaN == [t |-> "NaN"]

Num(hi, lo) == [t |-> "number", hi |-> hi, lo |-> lo]

Str(s) == [t |-> "string", s |-> s]

\* The completion of a call that threw "x.accept is not a function".
TypeError == [t |-> "TypeError"]

RECURSIVE Log2Floor(_)
Log2Floor(n) == IF n < 2 THEN 0 ELSE 1 + Log2Floor(n \div 2)

\* lo rounded to the nearest multiple of ulp, a tie going to the even multiple.
RoundToEven(lo, ulp) ==
    LET q == lo \div ulp
        r == lo - q * ulp
    IN  IF 2 * r < ulp THEN q * ulp
        ELSE IF 2 * r > ulp THEN (q + 1) * ulp
        ELSE IF q % 2 = 0 THEN q * ulp ELSE (q + 1) * ulp

\* The double nearest to hi * 2^53 + lo, for hi > 0: the spacing of doubles
\* in [2^(53+k), 2^(54+k)) is 2^(k+1).
RoundPositive(hi, lo) ==
    LET k == Log2Floor(hi)
        ulp == IF lo < 0 /\ hi = 2 ^ k THEN 2 ^ k ELSE 2 ^ (k + 1)
    IN  Num(hi, RoundToEven(lo, ulp))

\* The double nearest to the integer hi * 2^53 + lo.
Round(hi, lo) ==
    IF hi = 0 THEN Num(0, lo)
    ELSE IF hi > 0 THEN RoundPositive(hi, lo)
    ELSE LET m == RoundPositive(-hi, -lo) IN Num(-m.hi, -m.lo)

\* n in decimal, in exactly eight digits.
Pad8(n) ==
    LET s == ToString(n)
    IN  IF n < 10 THEN "0000000" \o s
        ELSE IF n < 100 THEN "000000" \o s
        ELSE IF n < 1000 THEN "00000" \o s
        ELSE IF n < 10000 THEN "0000" \o s
        ELSE IF n < 100000 THEN "000" \o s
        ELSE IF n < 1000000 THEN "00" \o s
        ELSE IF n < 10000000 THEN "0" \o s
        ELSE s

\* Number.prototype.toString of an integer below 10^21: plain decimal.
\* 2^53 = 90071992 * 10^8 + 54740992.
NumberToString(hi, lo) ==
    IF hi = 0 THEN ToString(lo)
    ELSE LET sign == IF hi < 0 THEN "-" ELSE ""
             h == IF hi < 0 THEN -hi ELSE hi
             l == IF hi < 0 THEN -lo ELSE lo
             low == h * 54740992 + l
             high == h * 90071992 + (low \div 100000000)
         IN  sign \o ToString(high) \o Pad8(low % 100000000)

\* The string a value becomes in a template literal or a string concatenation.
ToStr(v) ==
    CASE v.t = "string" -> v.s
      [] v.t = "number" -> NumberToString(v.hi, v.lo)
      [] v.t = "NaN" -> "NaN"
      [] v.t = "undefined" -> "undefined"

\* The operator + : concatenation when an operand is a string, else the
\* rounded sum of two numbers, else NaN.
JSAdd(a, b) ==
    IF a.t = "string" \/ b.t = "string" THEN Str(ToStr(a) \o ToStr(b))
    ELSE IF a.t = "number" /\ b.t = "number" THEN Round(a.hi + b.hi, a.lo + b.lo)
    ELSE NaN

\* The operator * on numbers of which one at least is below 2^53 in magnitude.
\* The sign of a zero is not kept: -2 * 0 is -0, which no operation of the
\* program tells from 0 (it compares equal, prints "0" and adds nothing).
JSMul(a, b) ==
    IF a.t # "number" \/ b.t # "number" THEN NaN
    ELSE IF a.hi = 0 THEN Round(a.lo * b.hi, a.lo * b.lo)
    ELSE Round(b.lo * a.hi, b.lo * a.lo)

(***************************************************************************)
(* Helper functions                                                        *)
(***************************************************************************)
millisPerDay == 24 * 60 * 60 * 1000

numDaysReversed(startDate, endDate) ==
    LET millis == startDate - endDate
    IN  Num(0, millis \div millisPerDay)

numDaysAbsolute(startDate, endDate) ==
    LET millis == IF endDate < startDate THEN startDate - endDate
                  ELSE endDate - startDate
    IN  Num(0, millis \div millisPerDay)

\* The dates of the model are whole days apart, so the division is exact.
numDays(startDate, endDate) ==
    LET millis == endDate - startDate
    IN  Num(0, millis \div millisPerDay)

\* toLocaleDateString() in the en-US locale, UTC, for a day of January 1970.
formatDate(date) ==
    "1/" \o ToString((date \div millisPerDay) + 1) \o "/1970"

\* toLocaleDateString('en-US', {year, month, day, hour, minute: 'numeric'}).
formatDateTime(date) ==
    LET minutes == (date % millisPerDay) \div 60000
        hour == minutes \div 60
        minute == minutes % 60
        hour12 == IF hour % 12 = 0 THEN 12 ELSE hour % 12
    IN  formatDate(date) \o ", " \o ToString(hour12) \o ":"
        \o (IF minute < 10 THEN "0" ELSE "") \o ToString(minute)
        \o (IF hour < 12 THEN " AM" ELSE " PM")

(***************************************************************************)
(* Products                                                                *)
(***************************************************************************)
\* new Date(0) and the midnight two days later.
Dates == {0, 2 * millisPerDay}

\* Flight prices: a small fare and 2^53, the first integer whose successor
\* no double holds.
Flights ==
    { [kind |-> "Flight", flightNumber |-> "TV 312", origin |-> "BOS",
       destination |-> "JFK", departureTime |-> 0, price |-> p] :
      p \in {Num(0, 1), Num(1, 0)} }

Hotels ==
    { [kind |-> "Hotel", id |-> "Hilton Times Square", checkInDate |-> a,
       checkOutDate |-> b, roomRate |-> Num(0, 400)] : a \in Dates, b \in Dates }

\* Cars at the daily rate of the sample package, and one free of charge
\* that is dropped off before it is picked up.
Cars ==
    { [kind |-> "Car", vehicleType |-> "SUV", pickupDate |-> a,
       dropOffDate |-> b, dailyRate |-> Num(0, 150)] : a \in Dates, b \in Dates }
    \cup
    { [kind |-> "Car", vehicleType |-> "SUV", pickupDate |-> 2 * millisPerDay,
       dropOffDate |-> 0, dailyRate |-> Num(0, 0)] }

Activities ==
    { [kind |-> "Activity", id |-> "Hamilton", startTime |-> 0,
       cost |-> Num(0, 200)] }

\* type Product = Flight | Hotel | Car | Activity
Product == Flights \cup Hotels \cup Cars \cup Activities

\* A value of none of the four classes, which only the compiler keeps out.
ForeignObjects == { [kind |-> "Object"] }

(***************************************************************************)
(* Type-switch variant: the free functions                                 *)
(***************************************************************************)
calculatePrice(product) ==
    IF product.kind = "Flight" THEN product.price
    ELSE IF product.kind = "Hotel" THEN
        JSMul(numDays(product.checkInDate, product.checkOutDate), product.roomRate)
    ELSE IF product.kind = "Car" THEN
        JSMul(numDays(product.pickupDate, product.dropOffDate), product.dailyRate)
    ELSE IF product.kind = "Activity" THEN product.cost
    ELSE Undefined

getItinerary(product) ==
    IF product.kind = "Flight" THEN
        Str("Flight\n" \o "------\n"
            \o product.flightNumber \o ": " \o product.origin \o "-"
            \o product.destination \o "\n"
            \o "Dep: " \o formatDateTime(product.departureTime) \o "\n"
            \o "Price: $" \o ToStr(product.price))
    ELSE IF product.kind = "Hotel" THEN
        Str("Hotel\n" \o "-----\n"
            \o product.id \o "\n"
            \o "Check in:  " \o formatDate(product.checkInDate) \o "\n"
            \o "Check out: " \o formatDate(product.checkOutDate) \o "\n"
            \o "Room rate: $" \o ToStr(product.roomRate) \o "/night")
    ELSE IF product.kind = "Car" THEN
        Str("Car\n" \o "---\n"
            \o "Vehicle type:" \o product.vehicleType \o "\n"
            \o "Pick up:  " \o formatDate(product.pickupDate) \o "\n"
            \o "Drop off: " \o formatDate(product.dropOffDate) \o "\n"
            \o "Daily rate: $" \o ToStr(product.dailyRate))
    ELSE IF product.kind = "Activity" THEN
        Str("Activity\n" \o "--------\n"
            \o product.id \o "\n"
            \o formatDateTime(product.startTime) \o "\n"
            \o "Cost: $" \o ToStr(product.cost))
    ELSE Undefined

PriceReducerDropsAccumulator(accumulator, product) == calculatePrice(product)

\* (accumulator, product) => accumulator + calculatePrice(product)
PriceReducer(accumulator, product) ==
    JSAdd(accumulator, calculatePrice(product))

ItineraryReducerOneNewline(accumulator, product) ==
    JSAdd(JSAdd(accumulator, Str("\n")), getItinerary(product))

\* (accumulator, product) => accumulator + '\n\n' + getItinerary(product)
ItineraryReducer(accumulator, product) ==
    JSAdd(JSAdd(accumulator, Str("\n\n")), getItinerary(product))

\* VacationPackage.calculatePrice of the type-switch variant:
\* this.products.reduce(PriceReducer, 0), a left fold.
RECURSIVE TS_calculatePrice(_)
TS_calculatePrice(array) ==
    IF array = <<>> THEN Num(0, 0)
    ELSE PriceReducer(TS_calculatePrice(SubSeq(array, 1, Len(array) - 1)),
                      array[Len(array)])

\* VacationPackage.getItinerary of the type-switch variant:
\* this.products.reduce(ItineraryReducer, 'Itinerary\n=========').
RECURSIVE TS_getItinerary(_)
TS_getItinerary(array) ==
    IF array = <<>> THEN Str("Itinerary\n=========")
    ELSE ItineraryReducer(TS_getItinerary(SubSeq(array, 1, Len(array) - 1)),
                          array[Len(array)])

pushUnlessPresent(array, product) ==
    IF \E i \in 1..Len(array) : array[i] = product THEN array
    ELSE Append(array, product)

\* Array.prototype.push
push(array, product) == Append(array, product)

(***************************************************************************)
(* Visitor variant                                                         *)
(***************************************************************************)
VARIABLES
    products,          \* the type-switch package's array
    vproducts,         \* the visitor package's array
    lastOp,            \* the operation that ran last
    arg,               \* the argument of the last add
    observed,          \* the results returned since the last add
    price,             \* const price = pkg.calculatePrice(), type-switch variant
    itinerary,         \* const itinerary = pkg.getItinerary(), type-switch variant
    vprice,            \* the same two results of the visitor variant
    vitinerary,
    pricingVisitor,    \* the visitor of the last calculatePrice() call
    itineraryVisitor   \* the visitor of the last getItinerary() call

vars == <<products, vproducts, lastOp, arg, observed, price, itinerary,
          vprice, vitinerary, pricingVisitor, itineraryVisitor>>

\* A visitor object.  calls records each visit method entered and its
\* argument; error tells whether the traversal threw.
\* No visitor exists outside a calculatePrice() or getItinerary() call.
NoVisitor == [class |-> "none"]

StalePricingVisitor ==
    IF pricingVisitor = NoVisitor
    THEN [class |-> "PricingVisitor", price |-> Num(0, 0), calls |-> <<>>,
          error |-> FALSE]
    ELSE pricingVisitor

\* new PricingVisitor()
NewPricingVisitor ==
    [class |-> "PricingVisitor", price |-> Num(0, 0), calls |-> <<>>,
     error |-> FALSE]

\* new ItineraryVisitor()
NewItineraryVisitor ==
    [class |-> "ItineraryVisitor", itinerary |-> Str("Itinerary\n========="),
     calls |-> <<>>, error |-> FALSE]

PricingVisitor_visitFlight(this, flight) ==
    [this EXCEPT !.price = JSAdd(@, flight.price)]

PricingVisitor_visitHotel(this, hotel) ==
    [this EXCEPT !.price =
        JSAdd(@, JSMul(numDays(hotel.checkInDate, hotel.checkOutDate),
                       hotel.roomRate))]

PricingVisitor_visitCar(this, car) ==
    [this EXCEPT !.price =
        JSAdd(@, JSMul(numDays(car.pickupDate, car.dropOffDate), car.dailyRate))]

PricingVisitor_visitActivityAssigns(this, activity) ==
    [this EXCEPT !.price = activity.cost]

PricingVisitor_visitActivity(this, activity) ==
    [this EXCEPT !.price = JSAdd(@, activity.cost)]

ItineraryVisitor_visitFlight(this, flight) ==
    [this EXCEPT !.itinerary =
        JSAdd(@, Str("\n\n" \o "Flight\n" \o "------\n"
                     \o flight.flightNumber \o ": " \o flight.origin \o "-"
                     \o flight.destination \o "\n"
                     \o "Dep: " \o formatDateTime(flight.departureTime) \o "\n"
                     \o "Price: $" \o ToStr(flight.price)))]

ItineraryVisitor_visitHotel(this, hotel) ==
    [this EXCEPT !.itinerary =
        JSAdd(@, Str("\n\n" \o "Hotel\n" \o "-----\n"
                     \o hotel.id \o "\n"
                     \o "Check in:  " \o formatDate(hotel.checkInDate) \o "\n"
                     \o "Check out: " \o formatDate(hotel.checkOutDate) \o "\n"
                     \o "Room rate: $" \o ToStr(hotel.roomRate) \o "/night"))]

ItineraryVisitor_visitCarSpaced(this, car) ==
    [this EXCEPT !.itinerary =
        JSAdd(@, Str("\n\n" \o "Car\n" \o "---\n"
                     \o "Vehicle type: " \o car.vehicleType \o "\n"
                     \o "Pick up:  " \o formatDate(car.pickupDate) \o "\n"
                     \o "Drop off: " \o formatDate(car.dropOffDate) \o "\n"
                     \o "Daily rate: $" \o ToStr(car.dailyRate)))]

ItineraryVisitor_visitCar(this, car) ==
    [this EXCEPT !.itinerary =
        JSAdd(@, Str("\n\n" \o "Car\n" \o "---\n"
                     \o "Vehicle type:" \o car.vehicleType \o "\n"
                     \o "Pick up:  " \o formatDate(car.pickupDate) \o "\n"
                     \o "Drop off: " \o formatDate(car.dropOffDate) \o "\n"
                     \o "Daily rate: $" \o ToStr(car.dailyRate)))]

ItineraryVisitor_visitActivity(this, activity) ==
    [this EXCEPT !.itinerary =
        JSAdd(@, Str("\n\n" \o "Activity\n" \o "--------\n"
                     \o activity.id \o "\n"
                     \o formatDateTime(activity.startTime) \o "\n"
                     \o "Cost: $" \o ToStr(activity.cost)))]

\* Entering method `method` of visitor v with argument `product`.
Entered(v, method, product) ==
    [v EXCEPT !.calls = Append(@, [method |-> method, arg |-> product])]

\* The ProductVisitor interface: a call is bound to the method of v's class.
visitFlight(v, flight) ==
    IF v.class = "PricingVisitor"
    THEN PricingVisitor_visitFlight(Entered(v, "visitFlight", flight), flight)
    ELSE ItineraryVisitor_visitFlight(Entered(v, "visitFlight", flight), flight)

visitHotel(v, hotel) ==
    IF v.class = "PricingVisitor"
    THEN PricingVisitor_visitHotel(Entered(v, "visitHotel", hotel), hotel)
    ELSE ItineraryVisitor_visitHotel(Entered(v, "visitHotel", hotel), hotel)

visitCar(v, car) ==
    IF v.class = "PricingVisitor"
    THEN PricingVisitor_visitCar(Entered(v, "visitCar", car), car)
    ELSE ItineraryVisitor_visitCar(Entered(v, "visitCar", car), car)

visitActivity(v, activity) ==
    IF v.class = "PricingVisitor"
    THEN PricingVisitor_visitActivity(Entered(v, "visitActivity", activity), activity)
    ELSE ItineraryVisitor_visitActivity(Entered(v, "visitActivity", activity), activity)

Flight_accept(this, v) == visitFlight(v, this)

Hotel_acceptTwice(this, v) == visitHotel(visitHotel(v, this), this)

Hotel_accept(this, v) == visitHotel(v, this)

Car_accept(this, v) == visitCar(v, this)

Activity_accept(this, v) == visitActivity(v, this)

\* product.accept(v): the accept of the product's own class; a value of no
\* product class has no accept, and the call throws.
accept(product, v) ==
    CASE product.kind = "Flight" -> Flight_accept(product, v)
      [] product.kind = "Hotel" -> Hotel_accept(product, v)
      [] product.kind = "Car" -> Car_accept(product, v)
      [] product.kind = "Activity" -> Activity_accept(product, v)
      [] OTHER -> [v EXCEPT !.error = TRUE]

\* array.forEach(product => product.accept(v)); a throw ends the traversal.
RECURSIVE forEachAccept(_, _)
forEachAccept(array, v) ==
    IF array = <<>> THEN v
    ELSE LET before == forEachAccept(SubSeq(array, 1, Len(array) - 1), v)
         IN  IF before.error THEN before ELSE accept(array[Len(array)], before)

(***************************************************************************)
(* The operations of the two packages                                      *)
(***************************************************************************)
Init ==
    /\ products = <<>>
    /\ vproducts = <<>>
    /\ lastOp = "new"
    /\ arg = Undefined
    /\ observed = {}
    /\ price = Undefined
    /\ itinerary = Undefined
    /\ vprice = Undefined
    /\ vitinerary = Undefined
    /\ pricingVisitor = NoVisitor
    /\ itineraryVisitor = NoVisitor

\* pkg.add(product) on both packages.  The results held by the caller are
\* forgotten and the visitors of earlier calls are gone.
AddValue(product) ==
    /\ Len(products) < MaxProducts
    /\ products' = push(products, product)
    /\ vproducts' = push(vproducts, product)
    /\ lastOp' = "add"
    /\ arg' = product
    /\ observed' = {}
    /\ price' = Undefined
    /\ itinerary' = Undefined
    /\ vprice' = Undefined
    /\ vitinerary' = Undefined
    /\ pricingVisitor' = NoVisitor
    /\ itineraryVisitor' = NoVisitor

Add == \E product \in Product : AddValue(product)

\* add of a value that is no product, which the running program accepts.
AddForeign == \E object \in ForeignObjects : AddValue(object)

\* pkg.calculatePrice() on both packages.
CalculatePrice ==
    /\ price' = TS_calculatePrice(products)
    /\ pricingVisitor' = forEachAccept(vproducts, NewPricingVisitor)
    /\ vprice' = IF pricingVisitor'.error THEN TypeError ELSE pricingVisitor'.price
    /\ lastOp' = "calculatePrice"
    /\ observed' = observed \cup {"price"}
    /\ UNCHANGED <<products, vproducts, arg, itinerary, vitinerary, itineraryVisitor>>

\* pkg.getItinerary() on both packages.
GetItinerary ==
    /\ itinerary' = TS_getItinerary(products)
    /\ itineraryVisitor' = forEachAccept(vproducts, NewItineraryVisitor)
    /\ vitinerary' = IF itineraryVisitor'.error THEN TypeError
                     ELSE itineraryVisitor'.itinerary
    /\ lastOp' = "getItinerary"
    /\ observed' = observed \cup {"itinerary"}
    /\ UNCHANGED <<products, vproducts, arg, price, vprice, pricingVisitor>>

Next == Add \/ CalculatePrice \/ GetItinerary

Spec == Init /\ [][Next]_vars

\* The packages as the running program has them: add takes any value.
NextOpen == Add \/ AddForeign \/ CalculatePrice \/ GetItinerary

SpecOpen == Init /\ [][NextOpen]_vars

(***************************************************************************)
(* Properties                                                              *)
(***************************************************************************)
Header == "Itinerary\n========="

\* What a fresh PricingVisitor holds after product has accepted it.
AddedBy(product) == accept(product, NewPricingVisitor).price

\* What a fresh ItineraryVisitor holds after product has accepted it.
AppendedBy(product) == accept(product, NewItineraryVisitor).itinerary

Kinds(array) == { array[i].kind : i \in 1..Len(array) }

\* Every reordering of array.
Reorderings(array) ==
    { [i \in 1..Len(array) |-> array[f[i]]] : f \in Permutations(1..Len(array)) }

\* The sum of the individual prices as integers, with no rounding.
RECURSIVE ExactSum(_)
ExactSum(array) ==
    IF array = <<>> THEN Num(0, 0)
    ELSE LET rest == ExactSum(Tail(array))
             first == calculatePrice(Head(array))
         IN  Num(first.hi + rest.hi, first.lo + rest.lo)

\* The sum of the magnitudes of the individual prices, with no rounding.
RECURSIVE ExactMagnitudeSum(_)
ExactMagnitudeSum(array) ==
    IF array = <<>> THEN Num(0, 0)
    ELSE LET rest == ExactMagnitudeSum(Tail(array))
             first == calculatePrice(Head(array))
             negative == first.hi < 0 \/ (first.hi = 0 /\ first.lo < 0)
         IN  IF negative THEN Num(rest.hi - first.hi, rest.lo - first.lo)
             ELSE Num(rest.hi + first.hi, rest.lo + first.lo)

\* The magnitudes of the prices sum to at most 2^53: every partial sum, in
\* any order, is an integer a double holds exactly.
PricesSumExactly(array) ==
    LET m == ExactMagnitudeSum(array)
    IN  m.hi = 0 \/ (m.hi = 1 /\ m.lo = 0)

\* The prices added from left to right, each sum rounded to a double.
RECURSIVE LeftSum(_)
LeftSum(array) ==
    IF array = <<>> THEN Num(0, 0)
    ELSE JSAdd(LeftSum(SubSeq(array, 1, Len(array) - 1)),
               calculatePrice(array[Len(array)]))

\* The sections of an itinerary: a blank line and then the block, per product.
RECURSIVE Sections(_)
Sections(array) ==
    IF array = <<>> THEN ""
    ELSE "\n\n" \o getItinerary(Head(array)).s \o Sections(Tail(array))

IsNegative(n) == n.t = "number" /\ (n.hi < 0 \/ (n.hi = 0 /\ n.lo < 0))

\* C1: fed the same add calls, calculatePrice() of the type-switch package
\* and of the visitor package return the same number, and for each product
\* the type-switch calculatePrice(P) is the amount the PricingVisitor adds
\* when P accepts it.
C1_PriceEquivalence ==
    /\ products = vproducts
    /\ "price" \in observed => price = vprice
    /\ \A i \in 1..Len(products) :
          calculatePrice(products[i]) = AddedBy(vproducts[i])

C1_Witness ==
    /\ "price" \in observed
    /\ Cardinality(Kinds(products)) >= 3
    /\ price.t = "number"

\* C2: fed the same add calls, getItinerary() of the two packages return
\* the identical text, and for each product the visitor appends "\n\n" and
\* then exactly the block getItinerary(P) returns.
C2_ItineraryEquivalence ==
    /\ "itinerary" \in observed => itinerary = vitinerary
    /\ \A i \in 1..Len(products) :
          AppendedBy(vproducts[i])
              = Str(Header \o "\n\n" \o getItinerary(products[i]).s)

C2_Witness ==
    /\ "itinerary" \in observed
    /\ Cardinality(Kinds(products)) >= 3
    /\ itinerary.t = "string"

\* C3 as stated: calculatePrice() is the arithmetic sum of the individual
\* prices, and every reordering of the products has the same total.
C3_SumInAnyOrder ==
    "price" \in observed =>
        /\ price = ExactSum(products)
        /\ vprice = ExactSum(vproducts)
        /\ \A other \in Reorderings(products) :
              /\ TS_calculatePrice(other) = price
              /\ forEachAccept(other, NewPricingVisitor).price = vprice

\* C3, amended: when the prices are integers whose magnitudes sum to at most
\* 2^53, calculatePrice() is the arithmetic sum of the individual prices,
\* duplicates counted, and every reordering of the products has the same
\* total.
C3_SumWhenExact ==
    ("price" \in observed /\ PricesSumExactly(products)) =>
        /\ price = ExactSum(products)
        /\ vprice = ExactSum(vproducts)
        /\ \A other \in Reorderings(products) :
              /\ TS_calculatePrice(other) = price
              /\ forEachAccept(other, NewPricingVisitor).price = vprice

C3_Witness ==
    /\ "price" \in observed
    /\ PricesSumExactly(products)
    /\ Len(products) >= 3
    /\ products[1] = products[2]
    /\ calculatePrice(products[3]) # calculatePrice(products[1])
    /\ calculatePrice(products[1]) # Num(0, 0)

\* C4: after n add calls getItinerary() is the header followed by exactly n
\* sections in insertion order, each "\n\n" and the block of its product;
\* an empty package yields the header alone.
C4_ItineraryLayout ==
    "itinerary" \in observed =>
        /\ itinerary = Str(Header \o Sections(products))
        /\ vitinerary = Str(Header \o Sections(vproducts))
        /\ products = <<>> => itinerary = Str(Header) /\ vitinerary = Str(Header)

C4_Witness ==
    /\ "itinerary" \in observed
    /\ Len(products) >= 2
    /\ products[1].kind # products[2].kind

\* C5: the price of a Flight is its price field, of a Hotel
\* numDays(checkInDate, checkOutDate) * roomRate, of a Car
\* numDays(pickupDate, dropOffDate) * dailyRate, of an Activity its cost
\* field, in the type-switch function and in the PricingVisitor alike.
C5_PriceFormulas ==
    \A i \in 1..Len(products) :
        LET p == products[i]
            expected ==
                CASE p.kind = "Flight" -> p.price
                  [] p.kind = "Hotel" ->
                        JSMul(Num(0, (p.checkOutDate - p.checkInDate) \div millisPerDay),
                              p.roomRate)
                  [] p.kind = "Car" ->
                        JSMul(Num(0, (p.dropOffDate - p.pickupDate) \div millisPerDay),
                              p.dailyRate)
                  [] p.kind = "Activity" -> p.cost
        IN  calculatePrice(p) = expected /\ AddedBy(vproducts[i]) = expected

C5_Witness ==
    /\ \E i \in 1..Len(products) :
          /\ products[i].kind = "Hotel"
          /\ products[i].checkInDate < products[i].checkOutDate
          /\ calculatePrice(products[i]) = Num(0, 800)
    /\ \E i \in 1..Len(products) :
          /\ products[i].kind = "Car"
          /\ products[i].pickupDate < products[i].dropOffDate
          /\ calculatePrice(products[i]) = Num(0, 300)
    /\ \E i \in 1..Len(products) : products[i].kind \in {"Flight", "Activity"}

\* C6: one p.accept(v) enters exactly one method of v, once, with p as its
\* argument: visitFlight for a Flight, visitHotel for a Hotel, visitCar for a
\* Car, visitActivity for an Activity; a traversal enters one method per
\* product, in order.
C6_AcceptDispatch ==
    LET expected(p) == [method |-> "visit" \o p.kind, arg |-> p]
        log == [i \in 1..Len(vproducts) |-> expected(vproducts[i])]
    IN  /\ \A i \in 1..Len(vproducts) :
              \A v \in {NewPricingVisitor, NewItineraryVisitor} :
                  accept(vproducts[i], v).calls = <<expected(vproducts[i])>>
        /\ "price" \in observed => pricingVisitor.calls = log
        /\ "itinerary" \in observed => itineraryVisitor.calls = log

C6_Witness ==
    /\ observed = {"price", "itinerary"}
    /\ Cardinality(Kinds(vproducts)) >= 3
    /\ Len(pricingVisitor.calls) >= 3

\* C7: add appends exactly its argument at the end of the array, whatever
\* the array holds already, and no other operation changes the array.
C7_AddAppends ==
    [][ /\ lastOp' = "add" =>
              /\ products' = Append(products, arg')
              /\ vproducts' = Append(vproducts, arg')
        /\ lastOp' # "add" => products' = products /\ vproducts' = vproducts
      ]_vars

C7_Witness ==
    /\ lastOp = "add"
    /\ Len(products) >= 2
    /\ products[Len(products)] = products[Len(products) - 1]
    /\ arg = products[Len(products)]

\* C8: calculatePrice(product) and getItinerary(product) never return without
\* a value, whatever value they are handed.
C8_NoSilentFallthrough ==
    \A i \in 1..Len(products) :
        /\ calculatePrice(products[i]) # Undefined
        /\ getItinerary(products[i]) # Undefined

\* C9: each calculatePrice() and getItinerary() result is that of a fresh
\* accumulator run over the array as it is at the call, and a call repeated
\* with no add in between returns what the call before it returned.
C9_FreshAccumulators ==
    [][ /\ lastOp' = "calculatePrice" =>
              /\ price' = LeftSum(products')
              /\ vprice' = LeftSum(vproducts')
              /\ "price" \in observed => price' = price /\ vprice' = vprice
        /\ lastOp' = "getItinerary" =>
              /\ itinerary' = Str(Header \o Sections(products'))
              /\ vitinerary' = Str(Header \o Sections(vproducts'))
              /\ "itinerary" \in observed =>
                    itinerary' = itinerary /\ vitinerary' = vitinerary
      ]_vars

C9_Witness ==
    /\ observed = {"price", "itinerary"}
    /\ lastOp = "calculatePrice"
    /\ Len(products) >= 2
    /\ price # Num(0, 0)

\* The dates the products of the package carry.
DatesOf(array) ==
    UNION { LET p == array[i]
            IN  CASE p.kind = "Flight" -> {p.departureTime}
                  [] p.kind = "Hotel" -> {p.checkInDate, p.checkOutDate}
                  [] p.kind = "Car" -> {p.pickupDate, p.dropOffDate}
                  [] p.kind = "Activity" -> {p.startTime}
          : i \in 1..Len(array) }

Antisymmetric(array) ==
    \A a \in DatesOf(array) : \A b \in DatesOf(array) :
        LET ab == numDays(a, b)
            ba == numDays(b, a)
        IN  /\ ab = Num(-ba.hi, -ba.lo)
            /\ numDays(a, a) = Num(0, 0)

\* The span and the rate of a Hotel or a Car.
Stay(p) ==
    IF p.kind = "Hotel"
    THEN [start |-> p.checkInDate, end |-> p.checkOutDate, rate |-> p.roomRate]
    ELSE [start |-> p.pickupDate, end |-> p.dropOffDate, rate |-> p.dailyRate]

\* C10 as stated: numDays is antisymmetric, a Hotel or Car whose end date
\* precedes its start date contributes a negative amount, and one with equal
\* dates contributes 0.
C10_ReversedIsNegative ==
    /\ Antisymmetric(products)
    /\ \A i \in 1..Len(products) :
          LET p == products[i]
          IN  p.kind \in {"Hotel", "Car"} =>
                /\ Stay(p).end < Stay(p).start =>
                      IsNegative(calculatePrice(p)) /\ IsNegative(AddedBy(p))
                /\ Stay(p).end = Stay(p).start =>
                      calculatePrice(p) = Num(0, 0) /\ AddedBy(p) = Num(0, 0)

\* C10, amended: numDays is antisymmetric, a Hotel or Car whose end date
\* precedes its start date contributes a negative amount when its rate is
\* positive, and one with equal dates contributes 0.
C10_ReversedIsNegativeAtPositiveRate ==
    /\ Antisymmetric(products)
    /\ \A i \in 1..Len(products) :
          LET p == products[i]
          IN  p.kind \in {"Hotel", "Car"} =>
                /\ (Stay(p).end < Stay(p).start /\ Stay(p).rate.lo > 0) =>
                      IsNegative(calculatePrice(p)) /\ IsNegative(AddedBy(p))
                /\ Stay(p).end = Stay(p).start =>
                      calculatePrice(p) = Num(0, 0) /\ AddedBy(p) = Num(0, 0)

C10_Witness ==
    /\ \E i \in 1..Len(products) :
          /\ products[i].kind = "Hotel"
          /\ products[i].checkOutDate < products[i].checkInDate
          /\ calculatePrice(products[i]) = Num(0, -800)
    /\ \E i \in 1..Len(products) :
          /\ products[i].kind = "Car"
          /\ products[i].dropOffDate = products[i].pickupDate
          /\ products[i].dailyRate = Num(0, 150)

====
